---- MODULE Spec2Model ----
(***************************************************************************)
(* Model of the Redis Streams worker of VideoGenerator_API/rust-worker     *)
(* (src/main.rs): the XREAD loop with a persisted last_id, the processing  *)
(* and completed markers, the python runner and the MINID trimmer.         *)
(*                                                                         *)
(* One action per broker operation of the worker, so that a failure of     *)
(* the operation and a crash of the process can happen between any two.    *)
(* The broker (stream, keys, job hashes), the producer, the clock and the  *)
(* child runner are the environment.                                       *)
(***************************************************************************)
EXTENDS Integers, Sequences, FiniteSets, TLC

\* ------------------------------------------------------------------ bounds
MaxEntries == 2        \* entries the producer appends
MaxNow == 3            \* clock values 1..MaxNow (one unit stands for a millisecond)
MaxFaults == 3         \* failed operations, crashes and runner failures in a run

\* ------------------------------------------------------- configuration
\* The tuning the worker reads from its environment.
XreadCount == 2        \* XREAD_COUNT: entries per batch
TrimEveryLoops == 2    \* TRIM_EVERY_LOOPS
KeepMs == 1            \* TRIM_MINUTES * 60 * 1000, in clock units

\* connect_with_backoff, in milliseconds
BackoffStartMs == 200
BackoffCapMs == 5000
BackoffLoopAttempts == 8   \* attempts inside the loop; one more follows it

\* ------------------------------------------------------------ entry IDs
\* An entry ID "<ms>-<seq>" is the pair <<ms, seq>>.  The two strings of the
\* code that are not entry IDs of the stream get pairs of their own.
Zero == <<0, 0>>          \* "0-0"
Dollar == <<-1, -1>>      \* "$"
NoId == <<-2, -2>>        \* the key is absent

JobIds == {"a"}
NoJid == ""

\* The broker's ID ordering.
IdLT(x, y) == x[1] < y[1] \/ (x[1] = y[1] /\ x[2] < y[2])
IdLE(x, y) == x = y \/ IdLT(x, y)

VARIABLES
  \* ---- broker
  now,           \* the clock (now_ms), as last read
  stream,        \* the entries of the stream, in ID order: [id, jid]
  lastGen,       \* the stream's last generated ID
  persisted,     \* videogen:last_id, NoId when absent
  procMark,      \* entry IDs with a videogen:processing:<id> hash
  compKey,       \* entry IDs with a videogen:completed:<id> key
  legacy,        \* members of the legacy set videogen:completed
  job,           \* job:<jid> hashes
  \* ---- configuration
  startup_id,    \* JOBS_START_ID
  \* ---- worker process
  pc,            \* position of the worker in main
  last_id,       \* the in-memory cursor
  loop_count,    \* loop_count modulo TrimEveryLoops
  batch,         \* entries of the XREAD reply not handled yet
  err,           \* error of run_python_for
  attempt,       \* connect_with_backoff: attempts that have failed in this call
  delay,         \* connect_with_backoff: the pause before the next attempt, ms
  child,         \* the python runner: none, running, exit0, exit1
  \* ---- observation
  log,           \* every entry ever appended
  faults,        \* failures so far
  okExits,       \* entry ID -> children that exited 0 for it
  urlAtStart,    \* result_url was non-empty when the current dispatch began
  spawnedFor,    \* entry IDs for which a child was spawned
  mcDone,        \* entry IDs for which mark_completed was called
  contractBroken, \* some child exited 0 without a result_url
  retryId,       \* the entry whose dispatch ended with fatal_error, until the next reply
  retryWhy,      \* what failed in it: mark_processing or runner
  terminated,    \* entry IDs the worker has advanced the cursor to, ever
  replayed       \* entries of terminated handled again by the running process

streamVars == <<stream, lastGen, log>>
keyVars == <<persisted, procMark, compKey, legacy>>
confVars == <<startup_id>>
histVars == <<okExits, spawnedFor, mcDone, contractBroken>>
retryVars == <<retryId, retryWhy>>
replayVars == <<terminated, replayed>>
connVars == <<attempt, delay>>
vars == <<now, streamVars, keyVars, job, confVars, pc, last_id, loop_count, batch,
          err, child, faults, urlAtStart, histVars, retryVars, replayVars, connVars>>

\* ------------------------------------------------------------- helpers
Cur == Head(batch)
CanFail == faults < MaxFaults
SatSub(a, b) == IF a >= b THEN a - b ELSE 0
Min(a, b) == IF a <= b THEN a ELSE b

\* The outcome of an operation of the broker: 0 it succeeds, 1 it fails.
Outcome == 0..1

\* An operation of the broker fails or not; a failure uses up the budget.
Op(ok) ==
  /\ ~ok => CanFail
  /\ faults' = IF ok THEN faults ELSE faults + 1

RECURSIVE SelectAfter(_, _)
SelectAfter(s, id) ==
  IF s = <<>> THEN <<>>
  ELSE IF IdLT(id, Head(s).id) THEN s ELSE SelectAfter(Tail(s), id)

Take(s, n) == IF Len(s) <= n THEN s ELSE SubSeq(s, 1, n)

\* XREAD COUNT n STREAMS s id: up to n entries strictly after id.
XreadReply(id) == Take(SelectAfter(stream, id), XreadCount)

\* XTRIM MINID: the entries from minid on stay.
RECURSIVE KeepFrom(_, _)
KeepFrom(s, minid) ==
  IF s = <<>> THEN <<>>
  ELSE IF IdLT(Head(s).id, minid) THEN KeepFrom(Tail(s), minid) ELSE s

\* XADD *: the broker's next ID at clock t.
NextId(t) == IF lastGen[1] >= t THEN <<lastGen[1], lastGen[2] + 1>> ELSE <<t, 0>>

\* A reading of the clock: any value from the last reading on.
ClockReadings == now..MaxNow

Bump(f, id) == [f EXCEPT ![id] = @ + 1]

\* The running process begins to handle entry id.
Handled(id) == IF id \in terminated THEN replayed \cup {id} ELSE replayed

Init ==
  /\ now = 1
  /\ stream = <<>>
  /\ lastGen = Zero
  /\ log = <<>>
  /\ persisted = NoId
  /\ procMark = {}
  /\ compKey = {}
  /\ legacy \in SUBSET {<<1, 0>>}
  /\ job \in [JobIds -> [status : {"queued"}, error : {""},
                         result_url : {"", "url"}, processing_entry_id : {NoId}]]
  /\ startup_id \in {Dollar, Zero}
  /\ pc = "start"
  /\ last_id = NoId
  /\ loop_count = 0
  /\ batch = <<>>
  /\ err = ""
  /\ child = "none"
  /\ faults = 0
  /\ okExits = [id \in {} |-> 0]
  /\ urlAtStart = FALSE
  /\ spawnedFor = {}
  /\ mcDone = {}
  /\ contractBroken = FALSE
  /\ retryId = NoId
  /\ retryWhy = ""
  /\ terminated = {}
  /\ replayed = {}
  /\ attempt = 0
  /\ delay = BackoffStartMs

\* --------------------------------------------------------- environment
\* The producer appends an entry (XADD *), with or without an "id" field.  A
\* worker blocked in XREAD ... $ is handed the new entry.
Xadd ==
  /\ Len(log) < MaxEntries
  /\ \E j \in JobIds \cup {NoJid}, t \in ClockReadings :
       LET e == [id |-> NextId(t), jid |-> j] IN
       /\ now' = t
       /\ stream' = Append(stream, e)
       /\ log' = Append(log, e)
       /\ lastGen' = e.id
       /\ okExits' = okExits @@ (e.id :> 0)
       /\ IF pc = "blocked"
            THEN /\ batch' = <<e>>
                 /\ pc' = "entry"
                 /\ retryId' = NoId
                 /\ retryWhy' = ""
            ELSE UNCHANGED <<batch, pc, retryId, retryWhy>>
  /\ UNCHANGED <<keyVars, job, confVars, last_id, loop_count, err, child, faults,
                 urlAtStart, spawnedFor, mcDone, contractBroken>>
  /\ UNCHANGED <<replayVars, connVars>>

\* The runner writes job:<jid>.result_url.
ChildWriteUrl ==
  /\ child = "running"
  /\ job' = [job EXCEPT ![Cur.jid].result_url = "url"]
  /\ UNCHANGED <<now, streamVars, keyVars, confVars, pc, last_id, loop_count,
                 batch, err, child, faults, urlAtStart, histVars, retryVars>>
  /\ UNCHANGED <<replayVars, connVars>>

\* The runner exits: 0 (with or without having written result_url) or not 0.
ChildExit ==
  /\ child = "running"
  /\ \/ /\ child' = "exit0"
        /\ job[Cur.jid].result_url # ""
        /\ UNCHANGED <<faults, contractBroken>>
     \/ /\ child' = "exit0"
        /\ job[Cur.jid].result_url = ""
        /\ CanFail
        /\ faults' = faults + 1
        /\ contractBroken' = TRUE
     \/ /\ child' = "exit1"
        /\ CanFail
        /\ faults' = faults + 1
        /\ UNCHANGED contractBroken
  /\ UNCHANGED <<now, streamVars, keyVars, job, confVars, pc, last_id,
                 loop_count, batch, err, urlAtStart, okExits, spawnedFor, mcDone,
                 retryVars>>
  /\ UNCHANGED <<replayVars, connVars>>

\* ------------------------------------------------- the worker process
\* The process is gone, killed ("dead") or because main returned an error
\* ("exited"): nothing of its memory survives, its child with it.
Gone(how) ==
  /\ pc' = how
  /\ last_id' = NoId
  /\ loop_count' = 0
  /\ batch' = <<>>
  /\ err' = ""
  /\ child' = "none"
  /\ urlAtStart' = FALSE
  /\ retryId' = NoId
  /\ retryWhy' = ""
  /\ replayed' = {}
  /\ attempt' = 0
  /\ delay' = BackoffStartMs
  /\ UNCHANGED terminated

\* The process is killed at any point.
Crash ==
  /\ pc \notin {"dead", "exited", "start"}
  /\ CanFail
  /\ faults' = faults + 1
  /\ Gone("dead")
  /\ UNCHANGED <<now, streamVars, keyVars, job, confVars, histVars>>

\* The supervisor starts the process again.
Restart ==
  /\ pc \in {"dead", "exited"}
  /\ pc' = "start"
  /\ UNCHANGED <<now, streamVars, keyVars, job, confVars, last_id, loop_count,
                 batch, err, child, faults, urlAtStart, histVars, retryVars>>
  /\ UNCHANGED <<replayVars, connVars>>

\* connect_with_backoff, one step per attempt: a connection ends the call; a
\* failed attempt of the loop sleeps `delay` and doubles it up to the cap; the
\* error of the final attempt is returned, and main propagates it.  Only that
\* final failure counts in `faults`: the loop bounds the others itself.
NextDelayUncapped(d) == d * 2

NextDelay(d) == Min(d * 2, BackoffCapMs)

Connect ==
  /\ pc \in {"start", "reconnect"}
  /\ \/ /\ pc' = IF pc = "start" THEN "load" ELSE "xread"
        /\ attempt' = 0
        /\ delay' = BackoffStartMs
        /\ UNCHANGED <<last_id, loop_count, batch, err, child, faults,
                       urlAtStart, retryVars, replayVars>>
     \/ /\ attempt < BackoffLoopAttempts
        /\ attempt' = attempt + 1
        /\ delay' = NextDelay(delay)
        /\ UNCHANGED <<pc, last_id, loop_count, batch, err, child, faults,
                       urlAtStart, retryVars, replayVars>>
     \/ /\ attempt = BackoffLoopAttempts
        /\ CanFail
        /\ faults' = faults + 1
        /\ Gone("exited")
  /\ UNCHANGED <<now, streamVars, keyVars, job, confVars, histVars>>

\* redis_get_string(LAST_ID_KEY).unwrap_or(startup_id): a failed GET reads as
\* an absent key.
LoadedCursor(ok) == IF ok /\ persisted # NoId THEN persisted ELSE startup_id

Load ==
  /\ pc = "load"
  /\ \E f \in Outcome : LET ok == (f = 0) IN
       /\ Op(ok)
       /\ last_id' = LoadedCursor(ok)
  /\ loop_count' = 0
  /\ pc' = "xread"
  /\ UNCHANGED <<now, streamVars, keyVars, job, confVars, batch, err, child,
                 urlAtStart, histVars, retryVars>>
  /\ UNCHANGED <<replayVars, connVars>>

\* loop_count += 1; XREAD BLOCK .. COUNT .. STREAMS stream last_id.  An error:
\* reconnect and continue.  With "$" the call waits for an entry to be added.
Xread ==
  /\ pc = "xread"
  /\ loop_count' = (loop_count + 1) % TrimEveryLoops
  /\ \/ /\ CanFail
        /\ faults' = faults + 1
        /\ pc' = "reconnect"
        /\ UNCHANGED <<batch, retryVars>>
     \/ /\ last_id = Dollar
        /\ pc' = "blocked"
        /\ UNCHANGED <<batch, faults, retryVars>>
     \/ /\ last_id # Dollar
        /\ XreadReply(last_id) # <<>>
        /\ batch' = XreadReply(last_id)
        /\ pc' = "entry"
        /\ retryId' = NoId
        /\ retryWhy' = ""
        /\ UNCHANGED faults
     \/ /\ last_id # Dollar
        /\ XreadReply(last_id) = <<>>
        /\ pc' = "trim"
        /\ UNCHANGED <<batch, faults, retryVars>>
  /\ UNCHANGED <<now, streamVars, keyVars, job, confVars, last_id, err, child,
                 urlAtStart, histVars>>
  /\ UNCHANGED <<replayVars, connVars>>

\* XREAD ... $ returns Nil when BLOCK elapses with no new entry.
XreadTimeout ==
  /\ pc = "blocked"
  /\ pc' = "trim"
  /\ UNCHANGED <<now, streamVars, keyVars, job, confVars, last_id, loop_count,
                 batch, err, child, faults, urlAtStart, histVars, retryVars>>
  /\ UNCHANGED <<replayVars, connVars>>

\* An entry with no job id that is passed over without advance_last_id: the
\* loop goes on with the next entry of the batch.
EntryMalformedNotAdvancing ==
  /\ pc = "entry"
  /\ Cur.jid = NoJid
  /\ batch' = Tail(batch)
  /\ pc' = IF Tail(batch) = <<>> THEN "trim" ELSE "entry"
  /\ replayed' = Handled(Cur.id)
  /\ UNCHANGED <<terminated, connVars>>
  /\ UNCHANGED <<now, streamVars, keyVars, job, confVars, last_id, loop_count,
                 err, child, faults, urlAtStart, histVars, retryVars>>

\* An entry with no job id: advance_last_id = true.
EntryMalformed ==
  /\ pc = "entry"
  /\ Cur.jid = NoJid
  /\ pc' = "advance"
  /\ replayed' = Handled(Cur.id)
  /\ UNCHANGED <<terminated, connVars>>
  /\ UNCHANGED <<now, streamVars, keyVars, job, confVars, last_id, loop_count,
                 batch, err, child, faults, urlAtStart, histVars, retryVars>>

\* is_completed: EXISTS videogen:completed:<id>, else SISMEMBER of the legacy set.
IsCompletedValue(id) == id \in compKey \/ id \in legacy

\* The dispatch of an entry with a job id begins: is_completed(..)?  An error
\* leaves main.
IsCompleted ==
  /\ pc = "entry"
  /\ Cur.jid # NoJid
  /\ \/ /\ IsCompletedValue(Cur.id)
        /\ pc' = "advance"
        /\ urlAtStart' = (job[Cur.jid].result_url # "")
        /\ replayed' = Handled(Cur.id)
        /\ UNCHANGED <<last_id, loop_count, batch, err, child, faults, retryVars,
                       terminated, connVars>>
     \/ /\ ~IsCompletedValue(Cur.id)
        /\ pc' = "mark_processing"
        /\ urlAtStart' = (job[Cur.jid].result_url # "")
        /\ replayed' = Handled(Cur.id)
        /\ UNCHANGED <<last_id, loop_count, batch, err, child, faults, retryVars,
                       terminated, connVars>>
     \/ /\ CanFail
        /\ faults' = faults + 1
        /\ Gone("exited")
  /\ UNCHANGED <<now, streamVars, keyVars, job, confVars, histVars>>

\* mark_processing whose error is logged and not acted upon: the dispatch goes on.
MarkProcessingIgnoringError ==
  /\ pc = "mark_processing"
  /\ \/ /\ procMark' = procMark \cup {Cur.id}
        /\ UNCHANGED faults
     \/ /\ CanFail
        /\ faults' = faults + 1
        /\ procMark' \in {procMark, procMark \cup {Cur.id}}
  /\ pc' = "hset_status"
  /\ UNCHANGED <<now, streamVars, persisted, compKey, legacy, job, confVars,
                 last_id, loop_count, batch, err, child, urlAtStart, histVars,
                 retryVars>>
  /\ UNCHANGED <<replayVars, connVars>>

\* mark_processing: HSET jid, HSET ts_ms, EXPIRE; an error of the first leaves
\* no marker, an error of the others leaves the marker.  On an error:
\* fatal_error = true, break 'stream_loop.
MarkProcessing ==
  /\ pc = "mark_processing"
  /\ \/ /\ procMark' = procMark \cup {Cur.id}
        /\ pc' = "hset_status"
        /\ UNCHANGED <<batch, faults, urlAtStart, retryVars>>
     \/ /\ CanFail
        /\ faults' = faults + 1
        /\ procMark' \in {procMark, procMark \cup {Cur.id}}
        /\ batch' = <<>>
        /\ urlAtStart' = FALSE
        /\ retryId' = Cur.id
        /\ retryWhy' = "mark_processing"
        /\ pc' = "trim"
  /\ UNCHANGED <<now, streamVars, persisted, compKey, legacy, job, confVars,
                 last_id, loop_count, err, child, histVars>>
  /\ UNCHANGED <<replayVars, connVars>>

\* HSET job:<jid> <field> <value>, best effort.
HsetJob(jid, field, value, ok) ==
  /\ Op(ok)
  /\ job' = IF ok THEN [job EXCEPT ![jid][field] = value] ELSE job

HsetProcessing ==
  /\ pc = "hset_status"
  /\ \E f \in Outcome : LET ok == (f = 0) IN HsetJob(Cur.jid, "status", "processing", ok)
  /\ pc' = "hset_peid"
  /\ UNCHANGED <<now, streamVars, keyVars, confVars, last_id, loop_count, batch,
                 err, child, urlAtStart, histVars, retryVars>>
  /\ UNCHANGED <<replayVars, connVars>>

HsetProcessingEntry ==
  /\ pc = "hset_peid"
  /\ \E f \in Outcome : LET ok == (f = 0) IN HsetJob(Cur.jid, "processing_entry_id", Cur.id, ok)
  /\ pc' = "run_check"
  /\ UNCHANGED <<now, streamVars, keyVars, confVars, last_id, loop_count, batch,
                 err, child, urlAtStart, histVars, retryVars>>
  /\ UNCHANGED <<replayVars, connVars>>

\* get_nonempty_hget(job:<jid>, result_url): a failed HGET reads as no result.
GetNonemptyHget(jid, ok) == IF ok /\ job[jid].result_url # "" THEN "url" ELSE ""

\* run_python_for begins: the idempotency short-circuit, else the spawn.
ShortCircuit ==
  /\ pc = "run_check"
  /\ \E f \in Outcome : LET ok == (f = 0) IN
       /\ Op(ok)
       /\ pc' = IF GetNonemptyHget(Cur.jid, ok) # "" THEN "mark_completed" ELSE "spawn"
  /\ UNCHANGED <<now, streamVars, keyVars, job, confVars, last_id, loop_count,
                 batch, err, child, urlAtStart, histVars, retryVars>>
  /\ UNCHANGED <<replayVars, connVars>>

\* Command::new("python3") ... .spawn()
Spawn ==
  /\ pc = "spawn"
  /\ \/ /\ child' = "running"
        /\ spawnedFor' = spawnedFor \cup {Cur.id}
        /\ pc' = "wait"
        /\ UNCHANGED <<err, faults>>
     \/ /\ CanFail
        /\ faults' = faults + 1
        /\ err' = "failed to spawn python runner"
        /\ pc' = "fail_status"
        /\ UNCHANGED <<child, spawnedFor>>
  /\ UNCHANGED <<now, streamVars, keyVars, job, confVars, last_id, loop_count,
                 batch, urlAtStart, okExits, mcDone, contractBroken, retryVars>>
  /\ UNCHANGED <<replayVars, connVars>>

\* The try_wait loop: the child's exit status, or the timeout (the child is
\* killed).
Wait ==
  /\ pc = "wait"
  /\ \/ /\ child = "exit0"
        /\ okExits' = Bump(okExits, Cur.id)
        /\ pc' = "post_check"
        /\ UNCHANGED <<err, faults>>
     \/ /\ child = "exit1"
        /\ err' = "python runner failed with status"
        /\ pc' = "fail_status"
        /\ UNCHANGED <<okExits, faults>>
     \/ /\ child = "running"
        /\ CanFail
        /\ faults' = faults + 1
        /\ err' = "python runner timeout"
        /\ pc' = "fail_status"
        /\ UNCHANGED okExits
  /\ child' = "none"
  /\ UNCHANGED <<now, streamVars, keyVars, job, confVars, last_id, loop_count,
                 batch, urlAtStart, spawnedFor, mcDone, contractBroken, retryVars>>
  /\ UNCHANGED <<replayVars, connVars>>

\* After exit 0: HGET result_url, unwrap_or_default; empty is an error.
PostCheck ==
  /\ pc = "post_check"
  /\ \E f \in Outcome : LET ok == (f = 0) IN
       /\ Op(ok)
       /\ IF GetNonemptyHget(Cur.jid, ok) # ""
            THEN /\ pc' = "mark_completed"
                 /\ UNCHANGED err
            ELSE /\ pc' = "fail_status"
                 /\ err' = "no result_url set by runner"
  /\ UNCHANGED <<now, streamVars, keyVars, job, confVars, last_id, loop_count,
                 batch, child, urlAtStart, histVars, retryVars>>
  /\ UNCHANGED <<replayVars, connVars>>

\* let _ = mark_completed(..): SETEX of the completed key, then a best-effort
\* DEL of the processing hash.  A failed SETEX returns before the DEL.
MarkCompleted ==
  /\ pc = "mark_completed"
  /\ mcDone' = mcDone \cup {Cur.id}
  /\ \/ /\ compKey' = compKey \cup {Cur.id}
        /\ procMark' = procMark \ {Cur.id}
        /\ UNCHANGED faults
     \/ /\ CanFail
        /\ faults' = faults + 1
        /\ compKey' = compKey \cup {Cur.id}
        /\ UNCHANGED procMark
     \/ /\ CanFail
        /\ faults' = faults + 1
        /\ UNCHANGED <<compKey, procMark>>
  /\ pc' = "hset_completed"
  /\ UNCHANGED <<now, streamVars, persisted, legacy, job, confVars, last_id,
                 loop_count, batch, err, child, urlAtStart, okExits, spawnedFor,
                 contractBroken, retryVars>>
  /\ UNCHANGED <<replayVars, connVars>>

\* HSET status completed, best effort; advance_last_id = true.
HsetCompleted ==
  /\ pc = "hset_completed"
  /\ \E f \in Outcome : LET ok == (f = 0) IN HsetJob(Cur.jid, "status", "completed", ok)
  /\ pc' = "advance"
  /\ UNCHANGED <<now, streamVars, keyVars, confVars, last_id, loop_count, batch,
                 err, child, urlAtStart, histVars, retryVars>>
  /\ UNCHANGED <<replayVars, connVars>>

\* run_python_for returned Err(e): HSET status failed, best effort.
HsetFailed ==
  /\ pc = "fail_status"
  /\ \E f \in Outcome : LET ok == (f = 0) IN HsetJob(Cur.jid, "status", "failed", ok)
  /\ pc' = "fail_error"
  /\ UNCHANGED <<now, streamVars, keyVars, confVars, last_id, loop_count, batch,
                 err, child, urlAtStart, histVars, retryVars>>
  /\ UNCHANGED <<replayVars, connVars>>

\* HSET error e, best effort; fatal_error = true, break 'stream_loop.
HsetError ==
  /\ pc = "fail_error"
  /\ \E f \in Outcome : LET ok == (f = 0) IN HsetJob(Cur.jid, "error", err, ok)
  /\ batch' = <<>>
  /\ err' = ""
  /\ urlAtStart' = FALSE
  /\ retryId' = Cur.id
  /\ retryWhy' = "runner"
  /\ pc' = "trim"
  /\ UNCHANGED <<now, streamVars, keyVars, confVars, last_id, loop_count, child,
                 histVars>>
  /\ UNCHANGED <<replayVars, connVars>>

\* if advance_last_id: last_id = entry_id; SET videogen:last_id, best effort.
\* Then the next entry of the batch.
Advance ==
  /\ pc = "advance"
  /\ last_id' = Cur.id
  /\ terminated' = terminated \cup {Cur.id}
  /\ UNCHANGED <<replayed, connVars>>
  /\ \E f \in Outcome : LET ok == (f = 0) IN
       /\ Op(ok)
       /\ persisted' = IF ok THEN Cur.id ELSE persisted
  /\ batch' = Tail(batch)
  /\ urlAtStart' = FALSE
  /\ pc' = IF Tail(batch) = <<>> THEN "trim" ELSE "entry"
  /\ UNCHANGED <<now, streamVars, procMark, compKey, legacy, job, confVars,
                 loop_count, err, child, histVars, retryVars>>

\* ------------------------------------------------------------ trimmer

\* The millisecond prefix of last_id, 0 when it does not parse ("$").
LastMs(lid) == IF lid[1] >= 0 THEN lid[1] ELSE 0

\* The target without the cap at the cursor's millisecond prefix.
TargetMsUncapped(lid, nowms) == SatSub(nowms, KeepMs)

\* cutoff_ms.min(last_ms)
TargetMs(lid, nowms) == Min(SatSub(nowms, KeepMs), LastMs(lid))

\* The MINID built as "<target_ms>-0" in every case.
TrimWatermarkMsOnly(lid, nowms) ==
  IF lid = Zero \/ LastMs(lid) = 0 \/ TargetMs(lid, nowms) = 0 THEN NoId
  ELSE <<TargetMs(lid, nowms), 0>>

\* trim_stream_minid up to the XTRIM: the MINID it sends, NoId when it returns
\* without trimming.
TrimWatermark(lid, nowms) ==
  IF lid = Zero \/ LastMs(lid) = 0 \/ TargetMs(lid, nowms) = 0 THEN NoId
  ELSE IF TargetMs(lid, nowms) = LastMs(lid) THEN lid
  ELSE <<TargetMs(lid, nowms), 0>>

\* if loop_count % trim_every_n_loops == 0 { trim_stream_minid(..) }, with
\* now_ms() = t.  XTRIM MINID discards the entries below the watermark; an
\* error is logged.
Trim ==
  /\ pc = "trim"
  /\ pc' = "xread"
  /\ \/ /\ loop_count # 0
        /\ UNCHANGED <<now, stream, faults>>
     \/ /\ loop_count = 0
        /\ \E t \in ClockReadings :
             /\ now' = t
             /\ \/ /\ TrimWatermark(last_id, t) = NoId
                   /\ UNCHANGED <<stream, faults>>
                \/ /\ TrimWatermark(last_id, t) # NoId
                   /\ stream' = KeepFrom(stream, TrimWatermark(last_id, t))
                   /\ UNCHANGED faults
                \/ /\ TrimWatermark(last_id, t) # NoId
                   /\ CanFail
                   /\ faults' = faults + 1
                   /\ UNCHANGED stream
  /\ UNCHANGED <<lastGen, log, keyVars, job, confVars, last_id, loop_count,
                 batch, err, child, urlAtStart, histVars, retryVars>>
  /\ UNCHANGED <<replayVars, connVars>>

\* ------------------------------------------------------ specification
WorkerNext ==
  \/ Connect \/ Load \/ Xread \/ XreadTimeout \/ EntryMalformed \/ IsCompleted
  \/ MarkProcessing \/ HsetProcessing \/ HsetProcessingEntry \/ ShortCircuit
  \/ Spawn \/ Wait \/ PostCheck \/ MarkCompleted \/ HsetCompleted \/ HsetFailed
  \/ HsetError \/ Advance \/ Trim

Next ==
  \/ Xadd \/ ChildWriteUrl \/ ChildExit \/ Crash \/ Restart \/ WorkerNext

Spec == Init /\ [][Next]_vars

\* The worker with its scheduling: the loop of main keeps running, the
\* supervisor restarts a process that is gone, a running child writes its
\* result and exits.  The budget of faults makes every operation succeed
\* eventually.
FairSpec ==
  /\ Spec
  /\ WF_vars(WorkerNext)
  /\ WF_vars(Restart)
  /\ WF_vars(ChildWriteUrl)
  /\ WF_vars(ChildExit)

\* -------------------------------------------------------------- claims
Entries == {log[i] : i \in 1..Len(log)}
IsEntryId(c) == c[1] >= 0
\* The cursor value c is an entry ID at or past id.
AtOrPast(c, id) == IsEntryId(c) /\ IdLE(id, c)
HasCompletionMarker(id) == id \in compKey \/ id \in legacy
Dispatching == pc \in {"mark_processing", "hset_status", "hset_peid", "run_check",
                       "spawn", "wait", "post_check", "mark_completed",
                       "hset_completed", "fail_status", "fail_error"}

\* C1: every entry at or below the cursor (in memory or persisted) has a
\* completion marker or has no job id.
C1_NoSkip ==
  \A e \in Entries :
    (AtOrPast(last_id, e.id) \/ AtOrPast(persisted, e.id))
      => (HasCompletionMarker(e.id) \/ e.jid = NoJid)

\* C2: as long as every child that exits 0 has written result_url, no entry
\* has more than one child that ran to exit 0.
C2_AtMostOneSuccessfulRun ==
  ~contractBroken => \A id \in DOMAIN okExits : okExits[id] <= 1

\* C3: a dispatch that began with a non-empty result_url has no child.
C3_NoChildWhenResultPresent ==
  (Dispatching /\ urlAtStart) => child = "none"

\* C4: no step of the running worker lowers the in-memory cursor and no write
\* lowers the persisted cursor.
C4_CursorMonotone ==
  [][/\ (persisted # NoId => (persisted' # NoId /\ IdLE(persisted, persisted')))
     /\ ((IsEntryId(last_id) /\ pc' \notin {"dead", "exited"})
           => (IsEntryId(last_id') /\ IdLE(last_id, last_id')))]_vars

C6_CompletedIsSkipped ==
  [][(pc = "entry" /\ Cur.jid # NoJid /\ HasCompletionMarker(Cur.id)
        /\ pc' \notin {"entry", "dead"})
       => (pc' = "advance" /\ child' = "none" /\ procMark' = procMark
             /\ compKey' = compKey)]_vars

\* C7: the ID the worker passes to XREAD is a literal entry ID, never "$".
C7_ReadsAfterLiteralCursor ==
  pc \in {"xread", "blocked"} => IsEntryId(last_id)

\* C8: every appended entry is eventually at or below the cursor.
C8_EventuallyDispatched ==
  \A k \in 1..MaxEntries :
    [](Len(log) >= k => <>(Len(log) >= k /\ AtOrPast(last_id, log[k].id)))

\* C9: the cursor is at or past an entry for which a child was spawned only
\* when mark_completed has been called for it and no child runs for it.
C9_CursorAfterCompletion ==
  \A id \in spawnedFor :
    (AtOrPast(last_id, id) \/ AtOrPast(persisted, id))
      => (id \in mcDone /\ ~(child = "running" /\ Cur.id = id))

\* C10: when run_python_for fails, the step that ends the dispatch leaves the
\* cursor and the completion markers alone and abandons the batch, and the
\* next XREAD reply starts with the same entry.
C10_FailedEntryIsReread ==
  [][/\ (pc = "fail_error" /\ pc' \notin {"fail_error", "dead"})
          => (last_id' = last_id /\ persisted' = persisted /\ compKey' = compKey
                /\ batch' = <<>> /\ pc' = "trim")
     /\ (retryWhy = "runner" /\ pc \in {"xread", "blocked"} /\ pc' = "entry")
          => Head(batch').id = retryId]_vars

\* C11: when mark_processing fails, the step abandons the batch with no child,
\* no write to a job record and the cursor unchanged, and until the reply of
\* the next read the worker changes neither the cursor (in memory or persisted)
\* nor a job record and spawns no child.
C11_MarkProcessingFailureRetries ==
  [][/\ (pc = "mark_processing" /\ faults' > faults /\ pc' # "dead")
          => (pc' = "trim" /\ batch' = <<>> /\ child' = "none" /\ job' = job
                /\ last_id' = last_id /\ persisted' = persisted
                /\ spawnedFor' = spawnedFor)
     /\ (retryWhy = "mark_processing" /\ pc' \notin {"dead", "exited"})
          => (last_id' = last_id /\ persisted' = persisted /\ job' = job
                /\ child' = "none" /\ spawnedFor' = spawnedFor
                /\ pc' \in {"trim", "xread", "blocked", "reconnect", "entry"})]_vars

\* C11, witness: after a failed mark_processing the worker is about to read
\* again, from the cursor it had.
C11_Witness == retryWhy = "mark_processing" /\ pc = "xread"
\* C12: a failed is_completed leaves the worker running, on to mark_processing
\* for the entry.
C12_IsCompletedFailureProceeds ==
  [][(pc = "entry" /\ Cur.jid # NoJid /\ faults' > faults /\ pc' # "dead")
       => pc' = "mark_processing"]_vars

\* A child exited 0 for entry id, and the write of its completion marker was
\* attempted and left no marker.
MarkerWriteFailed(id) == okExits[id] >= 1 /\ id \in mcDone /\ id \notin compKey

\* C13: a failed mark_completed does not end the dispatch: the worker goes on
\* to the status write and to the advance of the cursor to the entry; and no
\* child is spawned for an entry whose runner succeeded and whose
\* completion-marker write failed.
C13_MarkerFailureNonFatal ==
  [][/\ (pc = "mark_completed" /\ faults' > faults /\ pc' # "dead")
          => pc' = "hset_completed"
     /\ (pc = "hset_completed" /\ pc' \notin {"hset_completed", "dead"})
          => pc' = "advance"
     /\ (pc = "advance" /\ pc' \notin {"advance", "dead"}) => last_id' = Cur.id
     /\ (pc = "spawn" /\ child' = "running") => ~MarkerWriteFailed(Cur.id)]_vars
\* C14: the running process has handled again at most one entry whose
\* dispatch had terminated before the process started.
C14_ReplayBoundedToOne == Cardinality(replayed) <= 1
\* The changes of job:<jid>.status the claim allows.
StatusSteps == {<<"queued", "processing">>, <<"processing", "completed">>,
                <<"processing", "failed">>}

\* C15: every change of a job's status is queued -> processing, processing ->
\* completed or processing -> failed, and once the worker is past the two
\* writes of a failure a failed job has a non-empty error.
C15_StatusTransitions ==
  [][\A j \in JobIds :
       /\ job'[j].status # job[j].status
            => <<job[j].status, job'[j].status>> \in StatusSteps
       /\ (job'[j].status = "failed" /\ pc' # "fail_error")
            => job'[j].error # ""]_vars
\* The positions of the worker at a broker operation the claim names: the
\* stream read, is_completed, mark_processing, the job-record writes,
\* mark_completed, the cursor store and the trim.
BrokerOpAt == {"xread", "entry", "mark_processing", "hset_status", "hset_peid",
               "mark_completed", "hset_completed", "fail_status", "fail_error",
               "advance", "trim"}

\* C16: a failed broker operation of the worker takes it to the reconnection
\* with the cursor unchanged, and the reconnection changes no cursor.
C16_FailureReconnects ==
  [][/\ (pc \in BrokerOpAt /\ faults' > faults /\ pc' # "dead")
          => (pc' = "reconnect" /\ last_id' = last_id /\ persisted' = persisted)
     /\ (pc = "reconnect" /\ pc' \notin {"dead", "exited"})
          => (last_id' = last_id /\ persisted' = persisted)]_vars
\* C17: an entry with no job id goes to the advance with no marker, no job
\* record and no child touched; the advance sets the cursor to the entry,
\* stores it (best effort) and goes on with the rest of the batch.
C17_MalformedAdvances ==
  [][/\ (pc = "entry" /\ Cur.jid = NoJid /\ pc' \notin {"entry", "dead"})
          => (pc' = "advance" /\ batch' = batch /\ last_id' = last_id)
     /\ (pc = "advance" /\ Cur.jid = NoJid /\ pc' \notin {"advance", "dead"})
          => (/\ last_id' = Cur.id
              /\ persisted' \in {persisted, Cur.id}
              /\ batch' = Tail(batch)
              /\ pc' = IF Tail(batch) = <<>> THEN "trim" ELSE "entry")
     /\ (pc \in {"entry", "advance"} /\ Cur.jid = NoJid /\ pc' # "dead")
          => (procMark' = procMark /\ compKey' = compKey /\ job' = job
                /\ child' = "none" /\ spawnedFor' = spawnedFor)]_vars

\* C17, witness: the cursor is at an entry with no job id and the worker is at
\* the next entry of the batch.
C17_Witness ==
  pc = "entry" /\ \E e \in Entries : e.jid = NoJid /\ last_id = e.id
\* The cursor has been at or past id at some time.
CursorHasReached(id) == \E t \in terminated : IdLE(id, t)

\* C18: while an entry is dispatched, the cursor has reached every entry the
\* broker ordered before it.
C18_DispatchInOrder ==
  Dispatching =>
    \A e \in Entries : IdLT(e.id, Cur.id) => CursorHasReached(e.id)
\* The step is a call of trim_stream_minid.
TrimStep == pc = "trim" /\ pc' = "xread" /\ loop_count = 0

\* The watermark as the claim computes it: cutoff_ms = now_ms - keep, the full
\* cursor when last_ms <= cutoff_ms, "<cutoff_ms>-0" when cutoff_ms < last_ms.
WatermarkByCases(lid, nowms) ==
  IF lid[1] <= nowms - KeepMs THEN lid ELSE <<nowms - KeepMs, 0>>

\* No request: the cursor is absent, is "0-0" or has no positive millisecond
\* prefix.
NoTrimAsClaimed(lid) == lid = NoId \/ lid = Zero \/ lid[1] <= 0

\* C19 as claimed: every call of trim_stream_minid sends no request in the
\* three cases of the cursor and the watermark by cases otherwise.
C19_WatermarkAsClaimed ==
  [][TrimStep =>
       TrimWatermark(last_id, now') =
         IF NoTrimAsClaimed(last_id) THEN NoId
         ELSE WatermarkByCases(last_id, now')]_vars

\* C19 as amended: also no request when now_ms is within the retention window
\* of the epoch (cutoff_ms, a saturating difference, is 0); a request that
\* succeeds leaves the entries from the watermark on.
C19_WatermarkAmended ==
  [][TrimStep =>
       /\ TrimWatermark(last_id, now') =
            IF NoTrimAsClaimed(last_id) \/ now' <= KeepMs THEN NoId
            ELSE WatermarkByCases(last_id, now')
       /\ stream' # stream
            => stream' = KeepFrom(stream, WatermarkByCases(last_id, now'))]_vars

\* C19, witness: the trimmer has discarded an entry with the cutoff below the
\* cursor's millisecond prefix.
C19_Witness ==
  /\ pc = "xread"
  /\ Len(stream) < Len(log)
  /\ IsEntryId(last_id)
  /\ now - KeepMs > 0
  /\ now - KeepMs < LastMs(last_id)

\* C20: connect_with_backoff makes at most 9 connection attempts and ends
\* after them at the latest, each failure either counting one attempt more or
\* ending the call.  It returns at the first attempt that yields a connection,
\* and returns an error only when all 9 attempts have failed.  The pause
\* slept after the k-th failed attempt (k = 0..7) is min(200 * 2^k, 5000) ms.
Connecting == pc \in {"start", "reconnect"}
C20_ConnectWithBackoff ==
  [][/\ attempt \in 0..8
     /\ (Connecting /\ pc' = pc /\ attempt' # attempt)
          => /\ attempt <= 7
             /\ attempt' = attempt + 1
             /\ delay = Min(200 * 2^attempt, 5000)
     /\ (Connecting /\ pc' = "exited") => attempt = 8
     /\ (Connecting /\ pc' \in {"load", "xread"}) => attempt' = 0]_vars
C20_Witness == pc = "exited" /\ last_id = NoId /\ faults = 1 /\ log = <<>>

\* C21: every main-loop iteration whose count is a multiple of
\* TRIM_EVERY_LOOPS invokes the trimmer before the next iteration begins,
\* whatever happened in it (entries dispatched, empty read, read error,
\* per-entry fatal error); and a trim error never terminates the worker or
\* changes the cursor.
IterationEnds == pc \in {"trim", "reconnect"} /\ pc' = "xread"
C21_TrimEveryMultiple ==
  [][/\ (IterationEnds /\ loop_count = 0) => pc = "trim"
     /\ (pc = "trim" /\ faults' > faults /\ pc' # "dead")
          => (pc' = "xread" /\ last_id' = last_id)]_vars

\* C22: the processing marker is written before any heavy work.  In every
\* dispatch the positions from the job-status write up to the wait for the
\* runner are entered only by a mark_processing of the current entry that has
\* succeeded, the dispatch stays at that entry while it is there, a runner is
\* spawned only from there, and whenever a runner is running the processing
\* marker of its entry has been written.
AfterMark == {"hset_status", "hset_peid", "run_check", "spawn", "wait"}
C22_MarkerBeforeRunner ==
  [][/\ (pc \notin AfterMark /\ pc' \in AfterMark)
          => /\ pc = "mark_processing" /\ pc' = "hset_status"
             /\ faults' = faults
             /\ batch' = batch
             /\ Cur.id \in procMark'
     /\ (pc \in AfterMark /\ pc' \in AfterMark)
          => (batch' = batch /\ Cur.id \in procMark')
     /\ (child # "running" /\ child' = "running")
          => (pc = "spawn" /\ pc' = "wait" /\ Cur.id \in spawnedFor')
     /\ child' = "running" => (pc' = "wait" /\ Head(batch').id \in procMark')]_vars
C22_Witness == child = "running" /\ pc = "wait" /\ Cur.id \in procMark

\* C23: job status agrees with the completion marker.  Assuming that writes
\* to the job record do not fail, in every state where the worker is idle
\* between dispatches, every entry with a job id whose completion marker the
\* worker has written and whose ID is at or below the cursor has a job with
\* status completed; also after a crash between the marker write and the
\* status write, followed by a restart.
JobWriteAt == {"hset_status", "hset_peid", "hset_completed", "fail_status", "fail_error"}
JobWriteFails == pc \in JobWriteAt /\ faults' > faults /\ pc' # "dead"
NextJobWritesOk == Next /\ ~JobWriteFails
JobWritesOkSpec == Init /\ [][NextJobWritesOk]_vars
Idle == pc \in {"xread", "blocked", "trim", "entry"}
C23_StatusAgreesWithMarker ==
  Idle => \A e \in Entries :
            (e.jid # NoJid /\ e.id \in compKey /\ AtOrPast(last_id, e.id))
              => job[e.jid].status = "completed"
====
